---- MODULE Spec2Model ----
(***************************************************************************)
(* Three-stage node pipeline of demo_phases: kind registry -> parse node   *)
(* -> AST node -> logical node -> explain report.                          *)
(*                                                                         *)
(* A text (std::string) is a sequence of pieces.  A piece is either one    *)
(* character taken from an argument string ("1", ":", "a", ...) or one     *)
(* fixed literal of the source ("  Row Limit: ").  Argument strings are    *)
(* sequences of single characters, so find/substr/stoi work on them        *)
(* character by character.                                                 *)
(***************************************************************************)
EXTENDS Integers, Sequences, FiniteSets, TLC

VARIABLES
    parserMap,      \* getParserMap(): registered name -> factory
    regLog,         \* history: the registerParseNode calls made, in order
    factoryMap,     \* logical_node getFactoryMap(): registered name -> factory
    phase,          \* "main" | "exited" | "terminated" (main thread); "client"
    runs,           \* processNode calls main has made so far
    overflowTraps,  \* build outcome of signed overflow: trap (TRUE) or wrap
    pc,             \* per frame: position inside processNode
    inName,         \* per frame: nodeType argument
    inArg,          \* per frame: inputData argument
    parseNode,      \* per frame: local parseNode
    astNode,        \* per frame: local astNode
    logicalNode,    \* per frame: local logicalNode
    trace,          \* per frame: events (node built / text written to cout)
    err,            \* per frame: exception that left processNode
    ctorCount,      \* per frame: parse constructors invoked by the lookup
    explained       \* per frame: results of the explain() calls, in order

regVars   == <<parserMap, regLog, factoryMap>>
mainVars  == <<phase, runs>>
frameVars == <<pc, inName, inArg, parseNode, astNode, logicalNode, trace, err,
               ctorCount, explained>>
vars      == <<parserMap, regLog, factoryMap, phase, runs, overflowTraps,
               pc, inName, inArg, parseNode, astNode, logicalNode, trace, err,
               ctorCount, explained>>

---------------------------------------------------------------------------
(* Bounds *)

MaxArgLen == 2       \* generated argument strings have at most this many characters
MaxRuns == 2         \* processNode calls made by main
MaxRegs == 3         \* registerParseNode calls in the registry specification
MaxExplains == 2     \* explain() calls on one logical node
NumPipelines == 2    \* concurrently running pipelines
MaxKeys == 4         \* sort keys of a directly constructed SortParams
MaxItems == 2        \* items of a directly constructed BarAstParams

(* Program constants *)

IntMax == 2147483647

---------------------------------------------------------------------------
(* Texts *)

NoNode == [kind |-> "none"]
NoErr  == [type |-> "none"]

Alphabet == {"1", "-", "a", ":"}

RECURSIVE StringsUpTo(_)
StringsUpTo(n) ==
    IF n = 0 THEN {<<>>}
    ELSE LET shorter == StringsUpTo(n - 1)
         IN  shorter \cup {Append(s, c) : s \in {t \in shorter : Len(t) = n - 1}, c \in Alphabet}

ExtraArgs ==
    { <<"1","0","0">>,
      <<" ","4","1">>,
      <<"+","1">>,
      <<"2","1","4","7","4","8","3","6","4","7">>,
      <<"2","1","4","7","4","8","3","6","4","8">>,
      <<"-","2","1","4","7","4","8","3","6","4","8">>,
      <<"-","2","1","4","7","4","8","3","6","4","9">>,
      <<"2","1","4","7","4","8","3","7">>,
      <<"f",",","g",":","d","e","s","c">>,
      <<":","d","e","s","c","x">>,
      <<"a",":","d","e","s">>,
      <<"a",",","b",",","c",",","d">>,
      <<"a",":","b",":","c">> }

Args == StringsUpTo(MaxArgLen) \cup ExtraArgs

DigitChars == <<"0","1","2","3","4","5","6","7","8","9">>

IsDigit(c) == \E i \in 1..10 : DigitChars[i] = c

DigitVal(c) == (CHOOSE i \in 1..10 : DigitChars[i] = c) - 1

IsSpace(c) == c \in {" ", "\t", "\n", "\r", "\f"}

Drop(s, n) == SubSeq(s, n + 1, Len(s))

RECURSIVE SkipSpaces(_)
SkipSpaces(s) ==
    IF s # <<>> /\ IsSpace(Head(s)) THEN SkipSpaces(Tail(s)) ELSE s

RECURSIVE DigitPrefix(_)
DigitPrefix(s) ==
    IF s # <<>> /\ IsDigit(Head(s)) THEN <<Head(s)>> \o DigitPrefix(Tail(s)) ELSE <<>>

\* Accumulate the digits as a non-positive number, so that INT_MIN is reached
\* without passing through a magnitude no int holds.  "range" marks overflow.
RECURSIVE NegAccum(_, _)
NegAccum(acc, ds) ==
    IF ds = <<>> THEN [range |-> FALSE, val |-> acc]
    ELSE LET d == DigitVal(Head(ds))
         IN  IF acc < -214748364 \/ (acc = -214748364 /\ d > 8)
             THEN [range |-> TRUE, val |-> 0]
             ELSE NegAccum(acc * 10 - d, Tail(ds))

\* std::stoi(arg): skip white space, optional sign, longest run of digits.
StoI(arg) ==
    LET s1   == SkipSpaces(arg)
        neg  == s1 # <<>> /\ Head(s1) = "-"
        s2   == IF s1 # <<>> /\ Head(s1) \in {"-", "+"} THEN Tail(s1) ELSE s1
        ds   == DigitPrefix(s2)
        acc  == NegAccum(0, ds)
    IN  IF ds = <<>>
        THEN [ok |-> FALSE, err |-> [type |-> "invalid_argument", what |-> <<"stoi">>]]
        ELSE IF acc.range \/ (~neg /\ acc.val < -IntMax)
        THEN [ok |-> FALSE, err |-> [type |-> "out_of_range", what |-> <<"stoi">>]]
        ELSE [ok |-> TRUE, val |-> IF neg THEN acc.val ELSE -acc.val]

RECURSIVE NegDigits(_)
NegDigits(n) ==   \* decimal digits of |n| for n <= 0
    LET last == (10 - (n % 10)) % 10
        rest == (n + last) \div 10
    IN  IF rest = 0 THEN <<DigitChars[last + 1]>>
        ELSE NegDigits(rest) \o <<DigitChars[last + 1]>>

\* std::to_string(int) and operator<<(int)
IntToStr(n) == IF n < 0 THEN <<"-">> \o NegDigits(n) ELSE NegDigits(-n)

\* A double held as a whole number of tenths; operator<<(double) output
DoubleToStr(tenths) ==
    IF tenths % 10 = 0 THEN IntToStr(tenths \div 10)
    ELSE IntToStr(tenths \div 10) \o <<".">> \o <<DigitChars[(tenths % 10) + 1]>>

\* arg.find(pat): position (0-based) of the first occurrence, -1 for npos
Find(arg, pat) ==
    LET hits == {i \in 1..(Len(arg) - Len(pat) + 1) : SubSeq(arg, i, i + Len(pat) - 1) = pat}
    IN  IF hits = {} THEN -1 ELSE (CHOOSE i \in hits : \A j \in hits : i <= j) - 1

---------------------------------------------------------------------------
(* Results of calls that may throw *)

Ok(node)    == [ok |-> TRUE, node |-> node]
Throw(e)    == [ok |-> FALSE, err |-> e]

RuntimeError(what) == [type |-> "runtime_error", what |-> what]

---------------------------------------------------------------------------
(* Parse layer: src/src/parse_nodes *)

\* LimitNode built with a parse that never throws (atoi: 0 when nothing is read)
LimitNodeLenient(arg) ==
    LET v == StoI(arg)
    IN  Ok([stage |-> "parse", kind |-> "limit", limitValue |-> IF v.ok THEN v.val ELSE 0])

LimitNode(arg) ==
    LET v == StoI(arg)
    IN  IF v.ok THEN Ok([stage |-> "parse", kind |-> "limit", limitValue |-> v.val])
        ELSE Throw(v.err)

\* SortNode whose asc is assigned only in the ":desc" branch: otherwise it
\* holds whatever earlier invocations left behind
SortNodeUninit(arg) ==
    Ok([stage |-> "parse", kind |-> "sort",
        keys |-> << <<"field1">>, <<"field2">> >>,
        asc  |-> IF Find(arg, <<":","d","e","s","c">>) # -1 THEN FALSE
                 ELSE (\A q \in DOMAIN pc : pc[q] = "idle")])

\* descending only when the argument ends with ":desc"
SortNodeSuffix(arg) ==
    Ok([stage |-> "parse", kind |-> "sort",
        keys |-> << <<"field1">>, <<"field2">> >>,
        asc  |-> ~(Len(arg) >= 5 /\ SubSeq(arg, Len(arg) - 4, Len(arg)) = <<":","d","e","s","c">>)])

\* the keys read from the argument: the field names between the commas, up
\* to the first ':'
SortNodeFieldNames(arg) ==
    LET colon  == Find(arg, <<":">>)
        fields == IF colon = -1 THEN arg ELSE SubSeq(arg, 1, colon)
        commas == {i \in 1..Len(fields) : fields[i] = ","}
        starts == {1} \cup {i + 1 : i \in commas}
        EndOf(b) == IF \E i \in commas : i >= b
                    THEN (CHOOSE i \in commas : i >= b /\ \A j \in commas : j >= b => i <= j) - 1
                    ELSE Len(fields)
        Nth(k) == CHOOSE b \in starts : Cardinality({c \in starts : c < b}) = k - 1
    IN  Ok([stage |-> "parse", kind |-> "sort",
            keys |-> [k \in 1..Cardinality(starts) |-> SubSeq(fields, Nth(k), EndOf(Nth(k)))],
            asc  |-> (Find(arg, <<":","d","e","s","c">>) = -1)])

SortNode(arg) ==
    Ok([stage |-> "parse", kind |-> "sort",
        keys |-> << <<"field1">>, <<"field2">> >>,
        asc  |-> (Find(arg, <<":","d","e","s","c">>) = -1)])

\* the split made at the last ':' (rfind) instead of the first
SetMetadataNodeLastColon(arg) ==
    LET colons == {i \in 1..Len(arg) : arg[i] = ":"}
        last   == CHOOSE i \in colons : \A j \in colons : j <= i
    IN  IF colons # {}
        THEN Ok([stage |-> "parse", kind |-> "set_metadata",
                 metaName   |-> SubSeq(arg, 1, last - 1),
                 expression |-> Drop(arg, last)])
        ELSE Ok([stage |-> "parse", kind |-> "set_metadata",
                 metaName   |-> <<"default_meta">>,
                 expression |-> arg])

SetMetadataNode(arg) ==
    LET colonPos == Find(arg, <<":">>)
    IN  IF colonPos # -1
        THEN Ok([stage |-> "parse", kind |-> "set_metadata",
                 metaName   |-> SubSeq(arg, 1, colonPos),
                 expression |-> Drop(arg, colonPos + 1)])
        ELSE Ok([stage |-> "parse", kind |-> "set_metadata",
                 metaName   |-> <<"default_meta">>,
                 expression |-> arg])

FooNode(arg) == Ok([stage |-> "parse", kind |-> "foo", data |-> arg])

\* the argument stored as the only item
BarNodeSingleItem(arg) ==
    Ok([stage |-> "parse", kind |-> "bar", data |-> arg,
        items |-> IF arg # <<>> THEN <<arg>> ELSE <<>>])

BarNode(arg) ==
    Ok([stage |-> "parse", kind |-> "bar", data |-> arg,
        items |-> IF arg # <<>> THEN <<arg, arg \o <<"_processed">> >> ELSE <<>>])

\* ParseNode::get_shape()
get_shape(node) ==
    CASE node.kind = "limit"        -> <<"limit_shape">>
      [] node.kind = "sort"         -> <<"sort_shape">>
      [] node.kind = "set_metadata" -> <<"set_metadata_shape">>
      [] node.kind = "foo"          -> <<"foo_shape">>
      [] node.kind = "bar"          -> <<"bar_shape">>

\* ParseNode::astParams(): the parameter record, tagged with its C++ type
astParams(node) ==
    CASE node.kind = "limit" ->
            [ptype |-> "LimitParams", limitValue |-> node.limitValue]
      [] node.kind = "sort" ->
            [ptype |-> "SortParams", sortKeys |-> node.keys, ascending |-> node.asc]
      [] node.kind = "set_metadata" ->
            [ptype |-> "SetMetadataParams", metaName |-> node.metaName,
             expression |-> node.expression]
      [] node.kind = "foo" ->
            [ptype |-> "FooAstParams", nodeType |-> <<"foo">>,
             debugInfo |-> <<"FooNode from parse layer with data: ">> \o node.data,
             fooSpecificData |-> 42]
      [] node.kind = "bar" ->
            [ptype |-> "BarAstParams", nodeType |-> <<"bar">>,
             debugInfo |-> <<"BarNode from parse layer with ">>
                           \o IntToStr(Len(node.items)) \o <<" items">>,
             barItems |-> node.items,
             barFlag |-> (node.items # <<>>),
             barCostEstimate |-> Len(node.items) * 105]

---------------------------------------------------------------------------
(* Kind registry: src/src/parse_node.cpp *)

Names == {"limit", "sort", "set_metadata", "foo", "bar", "nonexistent"}

Factories == {"LimitNode", "SortNode", "SetMetadataNode", "FooNode", "BarNode"}

\* Calling a registered factory: each lambda constructs its node class
CallFactory(factory, arg) ==
    CASE factory = "LimitNode"       -> LimitNode(arg)
      [] factory = "SortNode"        -> SortNode(arg)
      [] factory = "SetMetadataNode" -> SetMetadataNode(arg)
      [] factory = "FooNode"         -> FooNode(arg)
      [] factory = "BarNode"         -> BarNode(arg)
      [] OTHER -> Throw([type |-> "bad_function_call", what |-> <<"bad_function_call">>])

EmptyMap == [n \in {} |-> "none"]

\* insert_or_assign: a later registration replaces the entry
EmplaceOverwrite(map, name, factory) ==
    [n \in (DOMAIN map) \cup {name} |-> IF n = name THEN factory ELSE map[n]]

\* a map that is not static: every call starts from a fresh one
EmplaceFresh(map, name, factory) == [n \in {name} |-> factory]

\* std::map::emplace: inserts only when the key is absent
Emplace(map, name, factory) ==
    IF name \in DOMAIN map THEN map
    ELSE [n \in (DOMAIN map) \cup {name} |-> IF n = name THEN factory ELSE map[n]]

\* parserMap[name]: operator[] inserts an empty factory for an absent key
MapIndex(map, name) ==
    [found |-> TRUE,
     factory |-> IF name \in DOMAIN map THEN map[name] ELSE "none",
     map |-> [n \in (DOMAIN map) \cup {name} |-> IF n \in DOMAIN map THEN map[n] ELSE "none"]]

\* parserMap.find(name): the entry found, and the map as the call leaves it
MapFind(map, name) ==
    [found |-> name \in DOMAIN map,
     factory |-> IF name \in DOMAIN map THEN map[name] ELSE "none",
     map |-> map]

\* the error message built from argString instead of name
createParseNodeFromInputWrongText(map, name, arg) ==
    IF name \notin DOMAIN map
    THEN [res |-> Throw(RuntimeError(<<"Unknown parse node type: ">> \o arg)),
          ctor |-> 0, map |-> map]
    ELSE [res |-> CallFactory(map[name], arg), ctor |-> 1, map |-> map]

\* createParseNodeFromInput(name, argString)
createParseNodeFromInput(map, name, arg) ==
    LET it == MapFind(map, name)
    IN  IF ~it.found
        THEN [res |-> Throw(RuntimeError(<<"Unknown parse node type: ", name>>)),
              ctor |-> 0, map |-> it.map]
        ELSE [res |-> CallFactory(it.factory, arg), ctor |-> 1, map |-> it.map]

\* The REGISTER_NODE / REGISTER_PARSE_NODE objects of the five translation units
StaticRegistrars ==
    << [name |-> "limit",        factory |-> "LimitNode"],
       [name |-> "sort",         factory |-> "SortNode"],
       [name |-> "set_metadata", factory |-> "SetMetadataNode"],
       [name |-> "foo",          factory |-> "FooNode"],
       [name |-> "bar",          factory |-> "BarNode"] >>

RECURSIVE RegisterAll(_, _)
RegisterAll(map, calls) ==
    IF calls = <<>> THEN map
    ELSE RegisterAll(Emplace(map, Head(calls).name, Head(calls).factory), Tail(calls))

---------------------------------------------------------------------------
(* Parse -> AST: src/src/node_transformer.cpp, src/src/ast_nodes *)

\* only the three reuse kinds specialised: Foo and Bar reach the primary template
createAstNodeThreeKinds(params) ==
    CASE params.ptype = "LimitParams" ->
            Ok([stage |-> "ast", kind |-> "limit", params |-> params])
      [] params.ptype = "SortParams" ->
            Ok([stage |-> "ast", kind |-> "sort", params |-> params])
      [] params.ptype = "SetMetadataParams" ->
            Ok([stage |-> "ast", kind |-> "set_metadata", params |-> params])
      [] OTHER -> Throw(RuntimeError(<<"hi">>))

\* createAstNode<T>(params): one specialization per parameter type; the
\* primary template throws
createAstNode(params) ==
    CASE params.ptype = "LimitParams" ->
            Ok([stage |-> "ast", kind |-> "limit", params |-> params])
      [] params.ptype = "SortParams" ->
            Ok([stage |-> "ast", kind |-> "sort", params |-> params])
      [] params.ptype = "SetMetadataParams" ->
            Ok([stage |-> "ast", kind |-> "set_metadata", params |-> params])
      [] params.ptype = "FooAstParams" ->
            Ok([stage |-> "ast", kind |-> "foo", nodeType |-> params.nodeType,
                debugInfo |-> params.debugInfo, fooData |-> params.fooSpecificData])
      [] params.ptype = "BarAstParams" ->
            Ok([stage |-> "ast", kind |-> "bar", nodeType |-> params.nodeType,
                debugInfo |-> params.debugInfo, items |-> params.barItems,
                flag |-> params.barFlag, costEstimate |-> params.barCostEstimate])
      [] OTHER -> Throw(RuntimeError(<<"hi">>))

parseToAst(node) == createAstNode(astParams(node))

\* AstNode::debugName()
astDebugName(node) ==
    CASE node.kind = "limit" ->
            <<"LimitAstNode: (limit=">> \o IntToStr(node.params.limitValue) \o <<")">>
      [] node.kind = "sort" ->
            <<"SortAstNode: (keys=">> \o IntToStr(Len(node.params.sortKeys))
            \o <<", direction=">>
            \o <<IF node.params.ascending THEN "ASC" ELSE "DESC">> \o <<")">>
      [] node.kind = "set_metadata" ->
            <<"SetMetadataAstNode: (name=">> \o node.params.metaName
            \o <<", expr=">> \o node.params.expression \o <<")">>
      [] node.kind = "foo" ->
            <<"FooAstNode[">> \o node.nodeType \o <<"]: ">> \o node.debugInfo
            \o <<" (data=">> \o IntToStr(node.fooData) \o <<")">>
      [] node.kind = "bar" ->
            <<"BarAstNode[">> \o node.nodeType \o <<"]: ">> \o node.debugInfo
            \o <<" (items=">> \o IntToStr(Len(node.items))
            \o <<", flag=">> \o <<IF node.flag THEN "true" ELSE "false">>
            \o <<", cost=">> \o DoubleToStr(node.costEstimate) \o <<")">>

\* the reuse kinds returning a default-constructed record instead of params
logicalParamsDefault(node) ==
    CASE node.kind = "limit" -> [ptype |-> "LimitParams", limitValue |-> 0]
      [] node.kind = "sort" -> [ptype |-> "SortParams", sortKeys |-> <<>>, ascending |-> TRUE]
      [] node.kind = "set_metadata" ->
            [ptype |-> "SetMetadataParams", metaName |-> <<>>, expression |-> <<>>]
      [] node.kind = "foo" ->
            [ptype |-> "FooLogicalParams", nodeType |-> <<"foo">>,
             optimizationHint |-> <<"can_be_pushed_down">>,
             costMultiplier |-> IF node.fooData > 0 THEN 2 ELSE 1]
      [] node.kind = "bar" ->
            [ptype |-> "BarLogicalParams", nodeType |-> <<"bar">>,
             optimizationHint |-> <<IF node.flag THEN "can_use_index" ELSE "full_scan">>,
             canUseIndex |-> node.flag,
             estimatedRows |-> Len(node.items) * 100,
             selectivity |-> IF node.flag THEN 1 ELSE 10]

\* the multiplier doubled for every payload that is not negative
fooLogicalParamsNonNegative(node) ==
    [ptype |-> "FooLogicalParams", nodeType |-> <<"foo">>,
     optimizationHint |-> <<"can_be_pushed_down">>,
     costMultiplier |-> IF node.fooData >= 0 THEN 2 ELSE 1]

\* FooAstNode::logicalParams()
fooLogicalParams(node) ==
    [ptype |-> "FooLogicalParams", nodeType |-> <<"foo">>,
     optimizationHint |-> <<"can_be_pushed_down">>,
     costMultiplier |-> IF node.fooData > 0 THEN 2 ELSE 1]

\* the index decision taken from the item list instead of the flag
barLogicalParamsFromItems(node) ==
    [ptype |-> "BarLogicalParams", nodeType |-> <<"bar">>,
     optimizationHint |-> <<IF node.items # <<>> THEN "can_use_index" ELSE "full_scan">>,
     canUseIndex |-> (node.items # <<>>),
     estimatedRows |-> Len(node.items) * 100,
     selectivity |-> IF node.items # <<>> THEN 1 ELSE 10]

\* BarAstNode::logicalParams(); selectivity in tenths
barLogicalParams(node) ==
    [ptype |-> "BarLogicalParams", nodeType |-> <<"bar">>,
     optimizationHint |-> <<IF node.flag THEN "can_use_index" ELSE "full_scan">>,
     canUseIndex |-> node.flag,
     estimatedRows |-> Len(node.items) * 100,
     selectivity |-> IF node.flag THEN 1 ELSE 10]

\* AstNode::logicalParams()
logicalParams(node) ==
    CASE node.kind \in {"limit", "sort", "set_metadata"} -> node.params
      [] node.kind = "foo" -> fooLogicalParams(node)
      [] node.kind = "bar" -> barLogicalParams(node)

---------------------------------------------------------------------------
(* AST -> logical: src/src/ast_to_logical_transformer.cpp, src/src/logical_nodes *)

\* createLogicalNode<T>(params) / logical_node::create<T>(params)
createLogicalNode(params) ==
    CASE params.ptype = "LimitParams" ->
            Ok([stage |-> "logical", kind |-> "limit", params |-> params])
      [] params.ptype = "SortParams" ->
            Ok([stage |-> "logical", kind |-> "sort", params |-> params])
      [] params.ptype = "SetMetadataParams" ->
            Ok([stage |-> "logical", kind |-> "set_metadata", params |-> params])
      [] params.ptype = "FooLogicalParams" ->
            Ok([stage |-> "logical", kind |-> "foo", nodeType |-> params.nodeType,
                optimizationHint |-> params.optimizationHint,
                costMultiplier |-> params.costMultiplier])
      [] params.ptype = "BarLogicalParams" ->
            Ok([stage |-> "logical", kind |-> "bar", nodeType |-> params.nodeType,
                optimizationHint |-> params.optimizationHint,
                canUseIndex |-> params.canUseIndex,
                estimatedRows |-> params.estimatedRows,
                selectivity |-> params.selectivity])

\* The name-keyed logical factory map of src/src/logical_node.cpp.  Its keys
\* are nodeType texts.
LogicalFactories == {"FooLogicalNode", "BarLogicalNode"}

\* The REGISTER_LOGICAL_NODE objects of foo_logical_node.cpp and bar_logical_node.cpp
StaticLogicalRegistrars ==
    << [name |-> <<"foo">>, factory |-> "FooLogicalNode"],
       [name |-> <<"bar">>, factory |-> "BarLogicalNode"] >>

\* the registered lambdas: each constructs its node class from the two texts
CallLogicalFactory(factory, nodeType, optimizationHint) ==
    CASE factory = "FooLogicalNode" ->
            Ok([stage |-> "logical", kind |-> "foo", nodeType |-> nodeType,
                optimizationHint |-> optimizationHint])
      [] factory = "BarLogicalNode" ->
            Ok([stage |-> "logical", kind |-> "bar", nodeType |-> nodeType,
                optimizationHint |-> optimizationHint])

\* logical_node::create(const LogicalParams&): the name-keyed lookup
logicalNodeCreate(map, params) ==
    IF params.nodeType \notin DOMAIN map
    THEN Throw(RuntimeError(<<"Unknown Logical node type: ">> \o params.nodeType))
    ELSE CallLogicalFactory(map[params.nodeType], params.nodeType, params.optimizationHint)

\* createLogicalNode() going through the name-keyed lookup first
astToLogicalByName(node) ==
    LET r == logicalNodeCreate(factoryMap, [nodeType |-> <<node.kind>>,
                                            optimizationHint |-> <<>>])
    IN  IF r.ok THEN createLogicalNode(logicalParams(node)) ELSE r

\* astNode.createLogicalNode()
astToLogical(node) == createLogicalNode(logicalParams(node))

\* LogicalNode::debugName()
logicalDebugName(node) ==
    CASE node.kind = "limit"        -> <<"LimitLogicalNode">>
      [] node.kind = "sort"         -> <<"SortLogicalNode">>
      [] node.kind = "set_metadata" -> <<"SetMetadataLogicalNode">>
      [] node.kind = "foo"          -> <<"FooLogicalNode[">> \o node.nodeType \o <<"]">>
      [] node.kind = "bar"          -> <<"BarLogicalNode[">> \o node.nodeType \o <<"]">>

\* limitValue * 100 leaves the int range
Mul100Overflows(n) == n > IntMax \div 100 \/ n < -(IntMax \div 100)

\* limitValue * 100 reduced modulo 2^32 (two's complement), by 16-bit halves
Mul100Wrap(n) ==
    LET hi    == n \div 65536
        lo    == n % 65536
        newLo == (lo * 100) % 65536
        carry == (lo * 100) \div 65536
        newHi == (hi * 100 + carry) % 65536
        sHi   == IF newHi >= 32768 THEN newHi - 65536 ELSE newHi
    IN  sHi * 65536 + newLo

RECURSIVE JoinKeys(_)
JoinKeys(keys) ==
    IF keys = <<>> THEN <<>>
    ELSE IF Len(keys) = 1 THEN keys[1]
    ELSE keys[1] \o <<", ">> \o JoinKeys(Tail(keys))

\* the external sort chosen from three keys on
explainSortFromThree(node) ==
    <<"LOGICAL_PLAN:\n", "  Operation: Sort\n", "  Sort Keys: [">>
    \o JoinKeys(node.params.sortKeys)
    \o <<"]\n", "  Direction: ">>
    \o <<IF node.params.ascending THEN "ASCENDING" ELSE "DESCENDING">>
    \o <<"\n", "  Algorithm: ">>
    \o <<IF Len(node.params.sortKeys) >= 3 THEN "External Sort" ELSE "QuickSort">>
    \o <<"\n", "  Estimated Cost: ">>
    \o IntToStr(Len(node.params.sortKeys) * 200)
    \o <<" units">>

\* SortLogicalNode::explain()
explainSort(node) ==
    <<"LOGICAL_PLAN:\n", "  Operation: Sort\n", "  Sort Keys: [">>
    \o JoinKeys(node.params.sortKeys)
    \o <<"]\n", "  Direction: ">>
    \o <<IF node.params.ascending THEN "ASCENDING" ELSE "DESCENDING">>
    \o <<"\n", "  Algorithm: ">>
    \o <<IF Len(node.params.sortKeys) > 3 THEN "External Sort" ELSE "QuickSort">>
    \o <<"\n", "  Estimated Cost: ">>
    \o IntToStr(Len(node.params.sortKeys) * 200)
    \o <<" units">>

\* LogicalNode::explain(); traps: the build traps on signed overflow
explain(node, traps) ==
    CASE node.kind = "limit" ->
            IF Mul100Overflows(node.params.limitValue) /\ traps
            THEN [ok |-> FALSE, err |-> [type |-> "trap", what |-> <<"signed overflow">>]]
            ELSE [ok |-> TRUE, text |->
                    <<"LOGICAL_PLAN:\n", "  Operation: Limit\n", "  Row Limit: ">>
                    \o IntToStr(node.params.limitValue)
                    \o <<"\n", "  Estimated Memory: ">>
                    \o IntToStr(IF Mul100Overflows(node.params.limitValue)
                                THEN Mul100Wrap(node.params.limitValue)
                                ELSE node.params.limitValue * 100)
                    \o <<" bytes">>]
      [] node.kind = "sort" -> [ok |-> TRUE, text |-> explainSort(node)]
      [] node.kind = "set_metadata" ->
            [ok |-> TRUE, text |->
                <<"LOGICAL_PLAN:\n", "  Operation: SetMetadata\n", "  Metadata Name: ">>
                \o node.params.metaName
                \o <<"\n", "  Expression: ">>
                \o node.params.expression
                \o <<"\n", "  Side Effects: Yes (metadata write)\n",
                     "  Estimated Cost: 10 units">>]
      [] node.kind = "foo" ->
            [ok |-> TRUE, text |->
                <<"LOGICAL_PLAN:\n", "  Operation: FooOperation\n", "  Type: ">>
                \o node.nodeType
                \o <<"\n", "  Optimization: ">> \o node.optimizationHint
                \o <<"\n", "  Cost Multiplier: ">> \o IntToStr(node.costMultiplier)
                \o <<"\n", "  Estimated Cost: ">> \o IntToStr(100 * node.costMultiplier)
                \o <<" units">>]
      [] node.kind = "bar" ->
            [ok |-> TRUE, text |->
                <<"LOGICAL_PLAN:\n", "  Operation: BarOperation\n", "  Type: ">>
                \o node.nodeType
                \o <<"\n", "  Optimization: ">> \o node.optimizationHint
                \o <<"\n", "  Index Available: ">>
                \o <<IF node.canUseIndex THEN "Yes" ELSE "No">>
                \o <<"\n", "  Estimated Rows: ">> \o IntToStr(node.estimatedRows)
                \o <<"\n", "  Selectivity: ">> \o DoubleToStr(node.selectivity)
                \o <<"\n", "  Estimated Cost: ">>
                \o IntToStr(IF node.canUseIndex THEN 50 ELSE 200)
                \o <<" units">>]

---------------------------------------------------------------------------
(* processNode: src/src/main.cpp.  One frame per invocation. *)

Pipelines == 1..NumPipelines

Built(what)     == [ev |-> "built", what |-> what, text |-> <<>>]
Out(what, text) == [ev |-> "out", what |-> what, text |-> text]

\* a static local: initialised by the first invocation and seen by all
LocalStatic(store, p) ==
    LET have == {q \in DOMAIN store : store[q] # NoNode}
    IN  IF have = {} THEN store[p]
        ELSE store[CHOOSE q \in have : \A r \in have : q <= r]

\* a local variable of one processNode invocation
Local(store, p) == store[p]

\* main.cpp 16-23: banner, createParseNodeFromInput, shape label
Step1(p, nodeType, inputData) ==
    /\ pc[p] = "idle"
    /\ LET r      == createParseNodeFromInput(parserMap, nodeType, inputData)
           banner == << Out("banner", <<"Processing \"", nodeType, "\" node">>),
                        Out("step1", <<"[1] Creating parse node from input: \"">>
                                     \o inputData \o <<"\"">>) >>
       IN  /\ parserMap' = r.map
           /\ inName' = [inName EXCEPT ![p] = nodeType]
           /\ inArg' = [inArg EXCEPT ![p] = inputData]
           /\ ctorCount' = [ctorCount EXCEPT ![p] = r.ctor]
           /\ IF r.res.ok
              THEN /\ parseNode' = [parseNode EXCEPT ![p] = r.res.node]
                   /\ trace' = [trace EXCEPT ![p] =
                          banner \o <<Built("parse"), Out("shape", get_shape(r.res.node))>>]
                   /\ pc' = [pc EXCEPT ![p] = "parsed"]
                   /\ err' = err
              ELSE /\ parseNode' = parseNode
                   /\ trace' = [trace EXCEPT ![p] = banner]
                   /\ pc' = [pc EXCEPT ![p] = "failed"]
                   /\ err' = [err EXCEPT ![p] = r.res.err]
    /\ UNCHANGED <<regLog, factoryMap, overflowTraps, astNode, logicalNode, explained>>

\* main.cpp 26-28: parseToAst, AST debug label
Step2(p) ==
    /\ pc[p] = "parsed"
    /\ LET r == parseToAst(Local(parseNode, p))
       IN  IF r.ok
           THEN /\ astNode' = [astNode EXCEPT ![p] = r.node]
                /\ trace' = [trace EXCEPT ![p] = @ \o
                       << Out("step2", <<"[2] Transforming to AST node (via node_transformer)">>),
                          Built("ast"), Out("ast", astDebugName(r.node)) >>]
                /\ pc' = [pc EXCEPT ![p] = "ast"]
                /\ err' = err
           ELSE /\ astNode' = astNode
                /\ trace' = [trace EXCEPT ![p] = @ \o
                       << Out("step2", <<"[2] Transforming to AST node (via node_transformer)">>) >>]
                /\ pc' = [pc EXCEPT ![p] = "failed"]
                /\ err' = [err EXCEPT ![p] = r.err]
    /\ UNCHANGED <<regVars, overflowTraps, inName, inArg, parseNode, logicalNode,
                   ctorCount, explained>>

\* step 3 consuming its input: the AST node is moved into the logical node
Step3Consuming(p) ==
    /\ pc[p] = "ast"
    /\ LET r == astToLogical(Local(astNode, p))
       IN  /\ r.ok
           /\ logicalNode' = [logicalNode EXCEPT ![p] = r.node]
           /\ astNode' = [astNode EXCEPT ![p] = NoNode]
           /\ trace' = [trace EXCEPT ![p] = @ \o
                  << Out("step3", <<"[3] Transforming to logical node (via ast_to_logical_transformer)">>),
                     Built("logical"), Out("logical", logicalDebugName(r.node)) >>]
           /\ pc' = [pc EXCEPT ![p] = "logical"]
           /\ err' = err
    /\ UNCHANGED <<regVars, overflowTraps, inName, inArg, parseNode,
                   ctorCount, explained>>

\* step 3 printing astNode->debugName() once more instead of the logical label
Step3AstLabelAgain(p) ==
    /\ pc[p] = "ast"
    /\ LET r == astToLogical(Local(astNode, p))
       IN  /\ r.ok
           /\ logicalNode' = [logicalNode EXCEPT ![p] = r.node]
           /\ trace' = [trace EXCEPT ![p] = @ \o
                  << Out("step3", <<"[3] Transforming to logical node (via ast_to_logical_transformer)">>),
                     Built("logical"), Out("ast", astDebugName(Local(astNode, p))) >>]
           /\ pc' = [pc EXCEPT ![p] = "logical"]
           /\ err' = err
    /\ UNCHANGED <<regVars, overflowTraps, inName, inArg, parseNode, astNode,
                   ctorCount, explained>>

\* main.cpp 31-33: astToLogical, logical debug label
Step3(p) ==
    /\ pc[p] = "ast"
    /\ LET r == astToLogical(Local(astNode, p))
       IN  IF r.ok
           THEN /\ logicalNode' = [logicalNode EXCEPT ![p] = r.node]
                /\ trace' = [trace EXCEPT ![p] = @ \o
                       << Out("step3", <<"[3] Transforming to logical node (via ast_to_logical_transformer)">>),
                          Built("logical"), Out("logical", logicalDebugName(r.node)) >>]
                /\ pc' = [pc EXCEPT ![p] = "logical"]
                /\ err' = err
           ELSE /\ logicalNode' = logicalNode
                /\ trace' = [trace EXCEPT ![p] = @ \o
                       << Out("step3", <<"[3] Transforming to logical node (via ast_to_logical_transformer)">>) >>]
                /\ pc' = [pc EXCEPT ![p] = "failed"]
                /\ err' = [err EXCEPT ![p] = r.err]
    /\ UNCHANGED <<regVars, overflowTraps, inName, inArg, parseNode, astNode,
                   ctorCount, explained>>

\* main.cpp 36-37: explain report
Step4(p) ==
    /\ pc[p] = "logical"
    /\ LET r == explain(Local(logicalNode, p), overflowTraps)
       IN  IF r.ok
           THEN /\ explained' = [explained EXCEPT ![p] = <<r.text>>]
                /\ trace' = [trace EXCEPT ![p] = @ \o
                       << Out("step4", <<"[4] Execution Plan:">>), Out("explain", r.text) >>]
                /\ pc' = [pc EXCEPT ![p] = "done"]
                /\ err' = err
           ELSE /\ explained' = explained
                /\ trace' = [trace EXCEPT ![p] = @ \o << Out("step4", <<"[4] Execution Plan:">>) >>]
                /\ pc' = [pc EXCEPT ![p] = "aborted"]
                /\ err' = [err EXCEPT ![p] = r.err]
    /\ UNCHANGED <<regVars, overflowTraps, inName, inArg, parseNode, astNode,
                   logicalNode, ctorCount>>

\* processNode returns: its locals are destroyed
Return(p) ==
    /\ pc[p] = "done"
    /\ pc' = [pc EXCEPT ![p] = "idle"]
    /\ inName' = [inName EXCEPT ![p] = "none"]
    /\ inArg' = [inArg EXCEPT ![p] = <<>>]
    /\ parseNode' = [parseNode EXCEPT ![p] = NoNode]
    /\ astNode' = [astNode EXCEPT ![p] = NoNode]
    /\ logicalNode' = [logicalNode EXCEPT ![p] = NoNode]
    /\ trace' = [trace EXCEPT ![p] = <<>>]
    /\ ctorCount' = [ctorCount EXCEPT ![p] = 0]
    /\ explained' = [explained EXCEPT ![p] = <<>>]
    /\ UNCHANGED <<regVars, overflowTraps, err>>

---------------------------------------------------------------------------
(* main(): src/src/main.cpp 40-67.  The state at entry to main has the     *)
(* five static registrars done.                                            *)

StaticRegistry == RegisterAll(EmptyMap, StaticRegistrars)

StaticLogicalRegistry == RegisterAll(EmptyMap, StaticLogicalRegistrars)

InitFrames ==
    /\ pc = [p \in Pipelines |-> "idle"]
    /\ inName = [p \in Pipelines |-> "none"]
    /\ inArg = [p \in Pipelines |-> <<>>]
    /\ parseNode = [p \in Pipelines |-> NoNode]
    /\ astNode = [p \in Pipelines |-> NoNode]
    /\ logicalNode = [p \in Pipelines |-> NoNode]
    /\ trace = [p \in Pipelines |-> <<>>]
    /\ err = [p \in Pipelines |-> NoErr]
    /\ ctorCount = [p \in Pipelines |-> 0]
    /\ explained = [p \in Pipelines |-> <<>>]

Init ==
    /\ parserMap = StaticRegistry
    /\ regLog = StaticRegistrars
    /\ factoryMap = StaticLogicalRegistry
    /\ phase = "main"
    /\ runs = 0
    /\ overflowTraps \in BOOLEAN
    /\ InitFrames

\* main catching the exception and carrying on
MainProcessNodeCaught(nodeType, inputData) ==
    /\ phase = "main"
    /\ runs < MaxRuns
    /\ Step1(1, nodeType, inputData)
    /\ runs' = runs + 1
    /\ phase' = phase

MainProcessNode(nodeType, inputData) ==
    /\ phase = "main"
    /\ runs < MaxRuns
    /\ Step1(1, nodeType, inputData)
    /\ runs' = runs + 1
    /\ phase' = IF pc'[1] = "failed" THEN "terminated" ELSE phase

MainStep2 ==
    /\ phase = "main"
    /\ Step2(1)
    /\ phase' = IF pc'[1] = "failed" THEN "terminated" ELSE phase
    /\ UNCHANGED runs

MainStep3 ==
    /\ phase = "main"
    /\ Step3(1)
    /\ phase' = IF pc'[1] = "failed" THEN "terminated" ELSE phase
    /\ UNCHANGED runs

MainStep4 ==
    /\ phase = "main"
    /\ Step4(1)
    /\ phase' = IF pc'[1] = "aborted" THEN "terminated" ELSE phase
    /\ UNCHANGED runs

MainReturn ==
    /\ phase = "main"
    /\ Return(1)
    /\ UNCHANGED mainVars

MainExit ==
    /\ phase = "main"
    /\ pc[1] = "idle"
    /\ phase' = "exited"
    /\ UNCHANGED <<regVars, runs, overflowTraps, frameVars>>

Next ==
    \/ \E nodeType \in Names, inputData \in Args : MainProcessNode(nodeType, inputData)
    \/ MainStep2
    \/ MainStep3
    \/ MainStep4
    \/ MainReturn
    \/ MainExit

Spec == Init /\ [][Next]_vars

-------------------------------------------------------------------------------------------------------------------------------------------------
(* The registry used by a single-threaded client: registerParseNode calls  *)
(* and processNode invocations in any order, from an empty map.            *)

RegNames == {"limit", "sort", "nonexistent"}

RegFactories == {"LimitNode", "SortNode"}

RegArgs == { <<>>, <<"1">> }

InitReg ==
    /\ parserMap = EmptyMap
    /\ regLog = <<>>
    /\ factoryMap = EmptyMap
    /\ phase = "client"
    /\ runs = 0
    /\ overflowTraps = FALSE
    /\ InitFrames

\* registerParseNode(name, factory)
registerParseNode(name, factory) ==
    /\ Len(regLog) < MaxRegs
    /\ parserMap' = Emplace(parserMap, name, factory)
    /\ regLog' = Append(regLog, [name |-> name, factory |-> factory])
    /\ UNCHANGED <<factoryMap, mainVars, overflowTraps, frameVars>>

LogicalRegNames == { <<"sort">>, <<"foo">> }

\* logical_node::registerNode(name, factory)
registerNode(name, factory) ==
    /\ factoryMap' = Emplace(factoryMap, name, factory)
    /\ UNCHANGED <<parserMap, regLog, mainVars, overflowTraps, frameVars>>

RegStep1(nodeType, inputData) == Step1(1, nodeType, inputData) /\ UNCHANGED mainVars

RegStep2 == Step2(1) /\ UNCHANGED mainVars

RegStep3 == Step3(1) /\ UNCHANGED mainVars

RegStep4 == Step4(1) /\ UNCHANGED mainVars

RegReturn == Return(1) /\ UNCHANGED mainVars

NextReg ==
    \/ \E name \in RegNames, factory \in RegFactories : registerParseNode(name, factory)
    \/ \E name \in LogicalRegNames : registerNode(name, "FooLogicalNode")
    \/ \E nodeType \in Names, inputData \in RegArgs : RegStep1(nodeType, inputData)
    \/ RegStep2
    \/ RegStep3
    \/ RegStep4
    \/ RegReturn

SpecReg == InitReg /\ [][NextReg]_vars

-----
(* Several processNode invocations whose steps interleave, all started     *)
(* after the static registrars are done.                                   *)

ConcArgs == { <<"1">>, <<"a",":","1">> }

\* a holder of the logical node calls explain() once more
ExplainAgain(p) ==
    /\ pc[p] = "done"
    /\ Len(explained[p]) < MaxExplains
    /\ LET r == explain(Local(logicalNode, p), overflowTraps)
       IN  /\ r.ok
           /\ explained' = [explained EXCEPT ![p] = Append(@, r.text)]
    /\ UNCHANGED <<regVars, mainVars, overflowTraps, pc, inName, inArg, parseNode,
                   astNode, logicalNode, trace, err, ctorCount>>

ConcStep1(p, nodeType, inputData) == Step1(p, nodeType, inputData) /\ UNCHANGED mainVars

ConcStep2(p) == Step2(p) /\ UNCHANGED mainVars

ConcStep3(p) == Step3(p) /\ UNCHANGED mainVars

ConcStep4(p) == Step4(p) /\ UNCHANGED mainVars

NextConc ==
    \/ \E p \in Pipelines, nodeType \in Names, inputData \in ConcArgs :
           ConcStep1(p, nodeType, inputData)
    \/ \E p \in Pipelines : ConcStep2(p)
    \/ \E p \in Pipelines : ConcStep3(p)
    \/ \E p \in Pipelines : ConcStep4(p)
    \/ \E p \in Pipelines : ExplainAgain(p)

\* no ConcArgs value makes limitValue * 100 overflow
InitConc ==
    /\ parserMap = StaticRegistry
    /\ regLog = StaticRegistrars
    /\ factoryMap = StaticLogicalRegistry
    /\ phase = "main"
    /\ runs = 0
    /\ overflowTraps = FALSE
    /\ InitFrames

SpecConc == InitConc /\ [][NextConc]_vars

---------------------------------------------------------------------------
(* A client that constructs an AST node or a logical node from a parameter *)
(* record of its own, then runs the remaining stages on it.                *)

KeyNames == <<"a", "b", "c", "d", "e", "f", "g">>

\* key lists of every length up to MaxKeys, in two orders
KeyLists ==
    {[i \in 1..k |-> <<KeyNames[i]>>] : k \in 0..MaxKeys}
        \cup {[i \in 1..k |-> <<KeyNames[k + 1 - i]>>] : k \in 0..MaxKeys}

DirectSortParams ==
    {[ptype |-> "SortParams", sortKeys |-> keys, ascending |-> asc] :
        keys \in KeyLists, asc \in BOOLEAN}

DirectBarParams ==
    {[ptype |-> "BarAstParams", nodeType |-> <<"bar">>, debugInfo |-> <<>>,
      barItems |-> [i \in 1..n |-> <<KeyNames[i]>>], barFlag |-> f,
      barCostEstimate |-> 0] : n \in 0..MaxItems, f \in BOOLEAN}

FooPayloads == {-IntMax - 1, -1, 0, 1, 42, IntMax}

DirectFooParams ==
    {[ptype |-> "FooAstParams", nodeType |-> <<"foo">>, debugInfo |-> <<>>,
      fooSpecificData |-> d] : d \in FooPayloads}

\* createAstNode(params) called by the client
DirectAst(params) ==
    /\ pc[1] = "idle"
    /\ astNode' = [astNode EXCEPT ![1] = createAstNode(params).node]
    /\ trace' = [trace EXCEPT ![1] = <<Built("ast")>>]
    /\ pc' = [pc EXCEPT ![1] = "ast"]
    /\ UNCHANGED <<regVars, mainVars, overflowTraps, inName, inArg, parseNode,
                   logicalNode, err, ctorCount, explained>>

\* createLogicalNode(params) called by the client
DirectLogical(params) ==
    /\ pc[1] = "idle"
    /\ logicalNode' = [logicalNode EXCEPT ![1] = createLogicalNode(params).node]
    /\ trace' = [trace EXCEPT ![1] = <<Built("logical")>>]
    /\ pc' = [pc EXCEPT ![1] = "logical"]
    /\ UNCHANGED <<regVars, mainVars, overflowTraps, inName, inArg, parseNode,
                   astNode, err, ctorCount, explained>>

DirectStep3 == Step3(1) /\ UNCHANGED mainVars

DirectStep4 == Step4(1) /\ UNCHANGED mainVars

DirectReturn == Return(1) /\ UNCHANGED mainVars

NextNodes ==
    \/ \E params \in DirectSortParams \cup DirectBarParams \cup DirectFooParams :
           DirectAst(params)
    \/ \E params \in DirectSortParams : DirectLogical(params)
    \/ DirectStep3
    \/ DirectStep4
    \/ DirectReturn

SpecNodes == InitConc /\ [][NextNodes]_vars

---------------------------------------------------------------------------
(* Properties *)

Started(p) == pc[p] # "idle"

\* the node class each registered factory constructs
KindOfFactory(factory) ==
    CASE factory = "LimitNode"       -> "limit"
      [] factory = "SortNode"        -> "sort"
      [] factory = "SetMetadataNode" -> "set_metadata"
      [] factory = "FooNode"         -> "foo"
      [] factory = "BarNode"         -> "bar"

AllDigits(s) == \A i \in 1..Len(s) : IsDigit(s[i])

\* digit strings of equal length compared as numbers
DigitsLeq(a, b) ==
    \/ a = b
    \/ \E i \in 1..Len(a) :
          /\ \A j \in 1..(i - 1) : a[j] = b[j]
          /\ DigitVal(a[i]) < DigitVal(b[i])

\* the digits ds, read with the sign neg, name a value an int holds
FitsInt(neg, ds) ==
    LET zeros == {k \in 0..Len(ds) : \A i \in 1..k : ds[i] = "0"}
        lead  == CHOOSE k \in zeros : \A j \in zeros : j <= k
        sig   == Drop(ds, lead)
        top   == IF neg THEN <<"2","1","4","7","4","8","3","6","4","8">>
                 ELSE <<"2","1","4","7","4","8","3","6","4","7">>
    IN  Len(sig) < 10 \/ (Len(sig) = 10 /\ DigitsLeq(sig, top))

\* arg is a decimal integer an int holds: an optional '-', then digits only
DecimalInt(arg) ==
    LET neg == arg # <<>> /\ Head(arg) = "-"
        ds  == IF neg THEN Tail(arg) ELSE arg
    IN  ds # <<>> /\ AllDigits(ds) /\ FitsInt(neg, ds)

\* arg, after white space and one optional sign, begins with digits that
\* name a value an int holds
IntPrefix(arg) ==
    LET blanks == {k \in 0..Len(arg) : \A i \in 1..k : IsSpace(arg[i])}
        nb     == CHOOSE k \in blanks : \A j \in blanks : j <= k
        s1     == Drop(arg, nb)
        signed == s1 # <<>> /\ s1[1] \in {"-", "+"}
        s2     == IF signed THEN Drop(s1, 1) ELSE s1
        runs0  == {k \in 0..Len(s2) : \A i \in 1..k : IsDigit(s2[i])}
        nd     == CHOOSE k \in runs0 : \A j \in runs0 : j <= k
    IN  nd > 0 /\ FitsInt(signed /\ s1[1] = "-", SubSeq(s2, 1, nd))

ValidArg(name, arg) == name = "limit" => DecimalInt(arg)

UnknownKind(name) == RuntimeError(<<"Unknown parse node type: ", name>>)

C2_UnknownKind ==
    [][\A p \in Pipelines :
          (pc[p] = "idle" /\ pc'[p] # "idle") =>
              /\ inName'[p] \notin DOMAIN parserMap =>
                    /\ pc'[p] = "failed"
                    /\ err'[p] = UnknownKind(inName'[p])
                    /\ parseNode'[p] = NoNode
                    /\ ctorCount'[p] = 0
              /\ inName'[p] \in DOMAIN parserMap =>
                    /\ ctorCount'[p] = 1
                    /\ err'[p].type # "runtime_error"]_vars

C2_Witness ==
    /\ pc[1] = "failed"
    /\ inName[1] = "nonexistent"
    /\ DOMAIN parserMap = {"limit", "sort"}
    /\ err[1] = UnknownKind("nonexistent")

\* C3 as stated: for a registered name, every argument string yields a parse
\* node of that kind and no failure.
C3_Original ==
    \A p \in Pipelines :
        (Started(p) /\ inName[p] \in DOMAIN parserMap) =>
            /\ pc[p] # "failed"
            /\ parseNode[p].kind = KindOfFactory(parserMap[inName[p]])

\* C3 amended: for a registered name the lookup yields a parse node of that
\* kind for every argument string, except for the limit constructor: it
\* yields a LimitNode for every decimal integer an int holds, and fails, with
\* the std::stoi exception and no node, when the argument does not begin
\* (after white space and an optional sign) with decimal digits naming a
\* value an int holds.  For the remaining limit arguments (digits followed
\* by other characters) the outcome is one of these two.
C3_TotalExceptLimit ==
    \A p \in Pipelines :
        (Started(p) /\ inName[p] \in DOMAIN parserMap) =>
            LET factory == parserMap[inName[p]]
                built   == /\ pc[p] # "failed"
                           /\ parseNode[p].stage = "parse"
                           /\ parseNode[p].kind = KindOfFactory(factory)
                thrown  == /\ pc[p] = "failed"
                           /\ parseNode[p] = NoNode
                           /\ err[p].type \in {"invalid_argument", "out_of_range"}
            IN  IF factory # "LimitNode" THEN built
                ELSE /\ built \/ thrown
                     /\ DecimalInt(inArg[p]) => built
                     /\ ~IntPrefix(inArg[p]) => thrown

C3_Witness ==
    /\ pc[1] = "failed"
    /\ inName[1] = "limit"
    /\ inArg[1] = <<"a">>
    /\ err[1].type = "invalid_argument"

StageLabels == {"shape", "ast", "logical", "explain"}

IsStageEvent(e) == e.ev = "built" \/ e.what \in StageLabels

StageEvents(tr) ==
    LET sel == SelectSeq(tr, IsStageEvent)
    IN  [i \in 1..Len(sel) |-> <<sel[i].ev, sel[i].what>>]

FullRun ==
    << <<"built", "parse">>, <<"out", "shape">>, <<"built", "ast">>, <<"out", "ast">>,
       <<"built", "logical">>, <<"out", "logical">>, <<"out", "explain">> >>

IsPrefix(a, b) == Len(a) <= Len(b) /\ a = SubSeq(b, 1, Len(a))

TextOf(tr, what) ==
    LET sel == SelectSeq(tr, LAMBDA e : e.ev = "out" /\ e.what = what)
    IN  IF sel = <<>> THEN <<>> ELSE sel[1].text

\* C4: in a successful run each stage is run once and each of the four
\* outputs is written once, in the order shape label, AST debug label,
\* logical debug label, explain report, each after its node was built and
\* before the next node is built; the texts are those of the run's own nodes.
C4_OutputOrder ==
    \A p \in Pipelines :
        /\ IsPrefix(StageEvents(trace[p]), FullRun)
        /\ pc[p] = "done" =>
              /\ StageEvents(trace[p]) = FullRun
              /\ Len(explained[p]) = 1
              /\ TextOf(trace[p], "shape") = get_shape(parseNode[p])
              /\ TextOf(trace[p], "ast") = astDebugName(astNode[p])
              /\ TextOf(trace[p], "logical") = logicalDebugName(logicalNode[p])
              /\ TextOf(trace[p], "explain") = explained[p][1]

C4_Witness ==
    /\ pc[1] = "done"
    /\ inName[1] = "sort"
    /\ runs = 2

\* C5 as stated: after processNode with an unregistered name nothing at all
\* has been written for that input, the error has left main, and nothing
\* more is processed.
C5_Original ==
    (pc[1] = "failed" /\ inName[1] \notin DOMAIN parserMap) =>
        /\ trace[1] = <<>>
        /\ phase = "terminated"
        /\ ~ENABLED Next

\* C5 amended: after processNode with an unregistered name no node was built
\* and no shape label, AST label, logical label or explain report was
\* written; the only text written for that input is the banner naming the
\* kind and the step-1 line echoing the input, both written before the
\* lookup; the unknown-kind error has left main, which is terminated, and no
\* further input is processed.
C5_UnknownKindRun ==
    (pc[1] = "failed" /\ inName[1] \notin DOMAIN parserMap) =>
        /\ StageEvents(trace[1]) = <<>>
        /\ [i \in 1..Len(trace[1]) |-> trace[1][i].what] = <<"banner", "step1">>
        /\ parseNode[1] = NoNode /\ astNode[1] = NoNode /\ logicalNode[1] = NoNode
        /\ explained[1] = <<>>
        /\ err[1] = UnknownKind(inName[1])
        /\ phase = "terminated"
        /\ ~ENABLED Next

C5_Witness ==
    /\ pc[1] = "failed"
    /\ inName[1] = "nonexistent"
    /\ runs = 1
    /\ phase = "terminated"

SameInput(p, q) == Started(p) /\ Started(q) /\ inName[p] = inName[q] /\ inArg[p] = inArg[q]

BothHave(store, p, q) == store[p] # NoNode /\ store[q] # NoNode

ReuseKinds == {"limit", "sort", "set_metadata"}

\* C7: for Limit, Sort and SetMetadata the AST node holds the parse node's
\* fields and the logical node holds the AST node's, field for field.
C7_ParamsCarried ==
    \A p \in Pipelines :
        (Started(p) /\ pc[p] # "failed" /\ parseNode[p].kind \in ReuseKinds) =>
            LET pn == parseNode[p]
                an == astNode[p]
                ln == logicalNode[p]
                Same(a, b) ==
                    CASE pn.kind = "limit" -> a.limitValue = b.limitValue
                      [] pn.kind = "sort" ->
                            a.sortKeys = b.sortKeys /\ a.ascending = b.ascending
                      [] pn.kind = "set_metadata" ->
                            a.metaName = b.metaName /\ a.expression = b.expression
            IN  /\ an # NoNode =>
                      /\ an.params = astParams(pn)
                      /\ CASE pn.kind = "limit" -> an.params.limitValue = pn.limitValue
                           [] pn.kind = "sort" ->
                                 an.params.sortKeys = pn.keys /\ an.params.ascending = pn.asc
                           [] pn.kind = "set_metadata" ->
                                 /\ an.params.metaName = pn.metaName
                                 /\ an.params.expression = pn.expression
                /\ ln # NoNode =>
                      /\ ln.params = logicalParams(an)
                      /\ Same(ln.params, an.params)

C7_Witness ==
    /\ pc[1] = "done"
    /\ parseNode[1].kind = "sort"
    /\ ~parseNode[1].asc
    /\ ~logicalNode[1].params.ascending

\* the calls of log in the order perm (a permutation of 1..Len(log))
Permuted(log, perm) == [i \in 1..Len(log) |-> log[perm[i]]]

\* no name is registered with two different factories
NoConflict(log) ==
    \A i, j \in 1..Len(log) : log[i].name = log[j].name => log[i].factory = log[j].factory

\* C8 as stated: every permutation of the registerParseNode calls made
\* yields the map the calls produced.
C8_Original ==
    \A perm \in Permutations(1..Len(regLog)) :
        RegisterAll(EmptyMap, Permuted(regLog, perm)) = parserMap

\* C8 amended: when no name is registered with two different factories (as
\* with the five static registrars, whose names are distinct), every
\* permutation of the calls yields the same map, and so the same result for
\* every lookup.
C8_OrderIndependent ==
    NoConflict(regLog) =>
        \A perm \in Permutations(1..Len(regLog)) :
            LET map == RegisterAll(EmptyMap, Permuted(regLog, perm))
            IN  /\ map = parserMap
                /\ \A name \in Names, arg \in RegArgs :
                      createParseNodeFromInput(map, name, arg).res
                          = createParseNodeFromInput(parserMap, name, arg).res

C8_Witness ==
    /\ Len(regLog) = 3
    /\ NoConflict(regLog)
    /\ DOMAIN parserMap = RegNames

\* what one processNode invocation produces when nothing else runs
RunAlone(name, arg, traps) ==
    LET r1 == createParseNodeFromInput(StaticRegistry, name, arg).res
    IN  IF ~r1.ok
        THEN [failed |-> TRUE, err |-> r1.err, parse |-> NoNode, ast |-> NoNode,
              logical |-> NoNode, text |-> <<>>]
        ELSE LET r2 == parseToAst(r1.node)
                 r3 == astToLogical(r2.node)
                 r4 == explain(r3.node, traps)
             IN  [failed |-> FALSE, err |-> NoErr, parse |-> r1.node, ast |-> r2.node,
                  logical |-> r3.node, text |-> r4.text]

FrameOf(p) ==
    <<pc[p], inName[p], inArg[p], parseNode[p], astNode[p], logicalNode[p], trace[p],
      err[p], ctorCount[p], explained[p]>>

C9_Isolated ==
    \A p \in Pipelines :
        Started(p) =>
            LET alone == RunAlone(inName[p], inArg[p], overflowTraps)
            IN  /\ (pc[p] = "failed") = alone.failed
                /\ err[p] = alone.err
                /\ parseNode[p] \in {NoNode, alone.parse}
                /\ astNode[p] \in {NoNode, alone.ast}
                /\ logicalNode[p] \in {NoNode, alone.logical}
                /\ pc[p] \in {"parsed", "ast", "logical", "done"} => parseNode[p] = alone.parse
                /\ pc[p] \in {"ast", "logical", "done"} => astNode[p] = alone.ast
                /\ pc[p] \in {"logical", "done"} => logicalNode[p] = alone.logical
                /\ \A i \in 1..Len(explained[p]) : explained[p][i] = alone.text
                /\ pc[p] = "done" => TextOf(trace[p], "explain") = alone.text

C9_OneFramePerStep ==
    \A p, q \in Pipelines :
        (p # q /\ FrameOf(p)' # FrameOf(p)) => FrameOf(q)' = FrameOf(q)

\* C9: with the registrations done before the first lookup, pipelines whose
\* steps interleave each build the nodes and the explain text they build
\* when run alone, and every step changes the frame of one pipeline only.
C9_Concurrent == []C9_Isolated /\ [][C9_OneFramePerStep /\ parserMap' = parserMap]_vars

C9_Witness ==
    /\ pc[1] = "ast" /\ inName[1] = "sort"
    /\ pc[2] = "logical" /\ inName[2] = "bar"

\* C10: a step changes the registry map only if it is a registerParseNode
\* call; every step of processNode (lookup found or not, parseToAst,
\* astToLogical, the debug labels, explain) leaves the map as it was.
C10_ReadOnly ==
    [][/\ parserMap' # parserMap =>
             /\ Len(regLog') = Len(regLog) + 1
             /\ SubSeq(regLog', 1, Len(regLog)) = regLog
             /\ parserMap' = Emplace(parserMap, regLog'[Len(regLog')].name,
                                     regLog'[Len(regLog')].factory)
       /\ (\E p \in Pipelines : FrameOf(p)' # FrameOf(p)) => parserMap' = parserMap]_vars

C10_Witness ==
    /\ pc[1] = "failed"
    /\ err[1] = UnknownKind("bar")
    /\ Len(regLog) = 2
    /\ DOMAIN parserMap = {"limit", "nonexistent"}

\* the parse node of frame p exists: the lookup returned it
HasParseNode(p) == parseNode[p] # NoNode

HasPieces(text, pieces) ==
    \E i \in 1..(Len(text) - Len(pieces) + 1) : SubSeq(text, i, i + Len(pieces) - 1) = pieces

\* arg is written as a decimal integer: an optional '-', then digits only,
\* without superfluous leading zeros
Canonical(arg) ==
    LET neg == arg # <<>> /\ Head(arg) = "-"
        ds  == IF neg THEN Tail(arg) ELSE arg
    IN  /\ ds # <<>> /\ AllDigits(ds)
        /\ (Len(ds) > 1 => ds[1] # "0")
        /\ ~(neg /\ ds = <<"0">>)

\* the decimal text of the mathematical product n * 100, n given by its text
Times100Text(ntext) == IF ntext = <<"0">> THEN ntext ELSE ntext \o <<"0", "0">>

LimitRunEnded(p) ==
    /\ inName[p] = "limit"
    /\ Canonical(inArg[p]) /\ DecimalInt(inArg[p])
    /\ pc[p] \in {"done", "aborted"}

\* C12 as stated: every limit run whose argument is the decimal integer n (any
\* value an int holds) ends with limitValue = n and an explain report with
\* "Row Limit: n" and "Estimated Memory: m bytes", m the mathematical product
\* n * 100.
C12_Original ==
    \A p \in Pipelines :
        LimitRunEnded(p) =>
            /\ pc[p] = "done"
            /\ IntToStr(logicalNode[p].params.limitValue) = inArg[p]
            /\ HasPieces(explained[p][1], <<"  Row Limit: ">> \o inArg[p] \o <<"\n">>)
            /\ HasPieces(explained[p][1],
                         <<"  Estimated Memory: ">> \o Times100Text(inArg[p]) \o <<" bytes">>)

\* C12 where the code delivers it: the same, for the n whose product with 100
\* an int holds.
C12_InRange ==
    \A p \in Pipelines :
        (LimitRunEnded(p) /\ ~Mul100Overflows(StoI(inArg[p]).val)) =>
            /\ pc[p] = "done"
            /\ IntToStr(logicalNode[p].params.limitValue) = inArg[p]
            /\ HasPieces(explained[p][1], <<"  Row Limit: ">> \o inArg[p] \o <<"\n">>)
            /\ HasPieces(explained[p][1],
                         <<"  Estimated Memory: ">> \o Times100Text(inArg[p]) \o <<" bytes">>)

\* a limit run whose product leaves the int range has ended
C12_Witness ==
    /\ inName[1] = "limit"
    /\ inArg[1] = <<"2","1","4","7","4","8","3","7">>
    /\ pc[1] \in {"done", "aborted"}

\* arg is entirely a decimal integer: an optional sign, then one digit or more
IsDecimalText(arg) ==
    LET ds == IF arg # <<>> /\ Head(arg) \in {"-", "+"} THEN Tail(arg) ELSE arg
    IN  ds # <<>> /\ AllDigits(ds)

\* C13 as stated: a limit argument that is not entirely a decimal integer
\* makes the construction fail with a parse error, once, leaving no LimitNode;
\* a LimitNode exists only for an argument that is entirely a decimal integer.
C13_Original ==
    \A p \in Pipelines :
        (Started(p) /\ inName[p] = "limit") =>
            /\ ~IsDecimalText(inArg[p]) =>
                  /\ pc[p] = "failed"
                  /\ parseNode[p] = NoNode
                  /\ ctorCount[p] = 1
                  /\ err[p].type \in {"invalid_argument", "out_of_range"}
            /\ parseNode[p] # NoNode => IsDecimalText(inArg[p])

\* what the code does: the construction fails exactly when std::stoi reads no
\* int from the front of the argument; it is attempted once and on failure
\* leaves no node.
C13_PrefixAccepted ==
    \A p \in Pipelines :
        (Started(p) /\ inName[p] = "limit") =>
            /\ ctorCount[p] = 1
            /\ IF IntPrefix(inArg[p])
               THEN pc[p] # "failed" /\ parseNode[p].kind = "limit"
               ELSE /\ pc[p] = "failed" /\ parseNode[p] = NoNode
                    /\ err[p].type \in {"invalid_argument", "out_of_range"}

\* digits followed by another character were accepted
C13_Witness ==
    /\ inName[1] = "limit"
    /\ inArg[1] = <<"1", "a">>
    /\ parseNode[1] # NoNode
    /\ parseNode[1].limitValue = 1

\* pat occurs somewhere in arg
Contains(arg, pat) ==
    \E i \in 1..Len(arg) :
        /\ i + Len(pat) - 1 <= Len(arg)
        /\ \A j \in 1..Len(pat) : arg[i + j - 1] = pat[j]

DescText == <<":", "d", "e", "s", "c">>

SortRun(p) == Started(p) /\ pc[p] # "failed" /\ parseNode[p].kind = "sort"

\* C14: a sort node is descending exactly when its argument contains ":desc"
\* somewhere; the AST node and the logical node hold the same direction, and
\* the explain report says "Direction: DESCENDING" in that case and
\* "Direction: ASCENDING" otherwise.
C14_Direction ==
    \A p \in Pipelines :
        SortRun(p) =>
            LET desc == Contains(inArg[p], DescText)
            IN  /\ parseNode[p].asc = ~desc
                /\ astNode[p] # NoNode => astNode[p].params.ascending = ~desc
                /\ logicalNode[p] # NoNode => logicalNode[p].params.ascending = ~desc
                /\ pc[p] = "done" =>
                      /\ HasPieces(explained[p][1], <<"  Direction: ", "DESCENDING", "\n">>) = desc
                      /\ HasPieces(explained[p][1], <<"  Direction: ", "ASCENDING", "\n">>) = ~desc

\* ":desc" in front of other text
C14_Witness ==
    /\ pc[1] = "done"
    /\ inName[1] = "sort"
    /\ inArg[1] = <<":", "d", "e", "s", "c", "x">>
    /\ ~logicalNode[1].params.ascending

PlaceholderKeys == << <<"field1">>, <<"field2">> >>

\* C20: whatever the argument, a sort node holds the two keys "field1",
\* "field2" in that order, as do its AST and logical nodes; every sort run
\* reports "Sort Keys: [field1, field2]", "Algorithm: QuickSort" and
\* "Estimated Cost: 400 units", and never "External Sort".
C20_PlaceholderKeys ==
    \A p \in Pipelines :
        SortRun(p) =>
            /\ parseNode[p].keys = PlaceholderKeys
            /\ astNode[p] # NoNode => astNode[p].params.sortKeys = PlaceholderKeys
            /\ logicalNode[p] # NoNode => logicalNode[p].params.sortKeys = PlaceholderKeys
            /\ \A i \in 1..Len(explained[p]) :
                  LET text == explained[p][i]
                  IN  /\ HasPieces(text, <<"  Sort Keys: [", "field1", ", ", "field2", "]\n">>)
                      /\ HasPieces(text, <<"  Algorithm: ", "QuickSort", "\n">>)
                      /\ HasPieces(text, <<"  Estimated Cost: ", "4", "0", "0", " units">>)
                      /\ ~HasPieces(text, <<"External Sort">>)
            /\ pc[p] = "done" => explained[p] # <<>>

\* four field names in the argument, two placeholder keys in the report
C20_Witness ==
    /\ pc[1] = "done"
    /\ inName[1] = "sort"
    /\ inArg[1] = <<"a", ",", "b", ",", "c", ",", "d">>
    /\ logicalNode[1].params.sortKeys = PlaceholderKeys

SetMetadataRun(p) == Started(p) /\ pc[p] # "failed" /\ parseNode[p].kind = "set_metadata"

HasColon(text) == \E i \in 1..Len(text) : text[i] = ":"

\* C16: for a set_metadata argument with a ':' the name is the text before the
\* first ':' and the expression all the text after it (name, ":" and
\* expression make up the argument, and the name holds no ':'); without ':'
\* the name is "default_meta" and the expression the whole argument.  The AST
\* and logical nodes hold the same two texts, explain prints both verbatim,
\* and the cost line is always "Estimated Cost: 10 units".
C16_NameExpression ==
    \A p \in Pipelines :
        SetMetadataRun(p) =>
            LET arg  == inArg[p]
                name == parseNode[p].metaName
                expr == parseNode[p].expression
            IN  /\ IF HasColon(arg)
                   THEN name \o <<":">> \o expr = arg /\ ~HasColon(name)
                   ELSE name = <<"default_meta">> /\ expr = arg
                /\ astNode[p] # NoNode =>
                      astNode[p].params.metaName = name /\ astNode[p].params.expression = expr
                /\ logicalNode[p] # NoNode =>
                      /\ logicalNode[p].params.metaName = name
                      /\ logicalNode[p].params.expression = expr
                /\ pc[p] = "done" =>
                      /\ HasPieces(explained[p][1],
                                   <<"  Metadata Name: ">> \o name \o <<"\n", "  Expression: ">>
                                   \o expr \o <<"\n">>)
                      /\ explained[p][1][Len(explained[p][1])] = "  Estimated Cost: 10 units"

\* an argument with two colons: the second one stays in the expression
C16_Witness ==
    /\ pc[1] = "done"
    /\ inName[1] = "set_metadata"
    /\ inArg[1] = <<"a", ":", "b", ":", "c">>
    /\ logicalNode[1].params.metaName = <<"a">>
    /\ logicalNode[1].params.expression = <<"b", ":", "c">>

\* the single-piece keys joined by ", "
Interleaved(keys) ==
    [i \in 1..(2 * Len(keys) - 1) |-> IF i % 2 = 1 THEN keys[(i + 1) \div 2][1] ELSE ", "]

\* C15: explain() of a sort logical node with k keys reports the cost k * 200
\* and the algorithm "External Sort" when k > 3, "QuickSort" when k <= 3, and
\* lists the keys in their stored order.
C15_SortCost ==
    \A p \in Pipelines :
        (logicalNode[p] # NoNode /\ logicalNode[p].kind = "sort") =>
            LET keys == logicalNode[p].params.sortKeys
                k    == Len(keys)
            IN  /\ pc[p] = "done" => explained[p] # <<>>
                /\ \A i \in 1..Len(explained[p]) :
                      LET text == explained[p][i]
                      IN  /\ HasPieces(text, <<"  Algorithm: ",
                                                IF k > 3 THEN "External Sort" ELSE "QuickSort",
                                                "\n">>)
                          /\ HasPieces(text, <<"  Estimated Cost: ">>
                                             \o Times100Text(IntToStr(2 * k)) \o <<" units">>)
                          /\ HasPieces(text, <<"  Sort Keys: [">> \o Interleaved(keys)
                                             \o <<"]\n">>)

\* three keys, stored in descending order of name, are reported by QuickSort
C15_Witness ==
    /\ pc[1] = "done"
    /\ logicalNode[1].kind = "sort"
    /\ logicalNode[1].params.sortKeys = << <<"c">>, <<"b">>, <<"a">> >>
    /\ HasPieces(explained[1][1], <<"QuickSort">>)

\* C17: for a bar AST node with n items and flag f the logical node holds
\* canUseIndex = f, estimatedRows = n * 100 and selectivity 0.1 if f, 1.0 if
\* not, and reports "Index Available: Yes" with cost 50 when f, "Index
\* Available: No" with cost 200 when not.
C17_BarLogical ==
    \A p \in Pipelines :
        (astNode[p] # NoNode /\ astNode[p].kind = "bar" /\ logicalNode[p] # NoNode) =>
            LET f  == astNode[p].flag
                n  == Len(astNode[p].items)
                ln == logicalNode[p]
            IN  /\ ln.kind = "bar"
                /\ ln.canUseIndex = f
                /\ ln.estimatedRows = n * 100
                /\ ln.selectivity = (IF f THEN 1 ELSE 10)
                /\ pc[p] = "done" => explained[p] # <<>>
                /\ \A i \in 1..Len(explained[p]) :
                      LET text == explained[p][i]
                      IN  IF f
                          THEN /\ HasPieces(text, <<"  Index Available: ", "Yes", "\n">>)
                               /\ HasPieces(text, <<"  Estimated Cost: ", "5", "0", " units">>)
                               /\ HasPieces(text, <<"  Selectivity: ", "0", ".", "1", "\n">>)
                          ELSE /\ HasPieces(text, <<"  Index Available: ", "No", "\n">>)
                               /\ HasPieces(text, <<"  Estimated Cost: ", "2", "0", "0", " units">>)
                               /\ HasPieces(text, <<"  Selectivity: ", "1", "\n">>)

\* the flag set on a node without items
C17_Witness ==
    /\ pc[1] = "done"
    /\ astNode[1].kind = "bar"
    /\ astNode[1].flag /\ astNode[1].items = <<>>
    /\ logicalNode[1].canUseIndex /\ logicalNode[1].estimatedRows = 0

\* C18: for a foo AST node with payload d the logical node holds
\* costMultiplier = 2 when d > 0 and 1 when d <= 0, and reports the cost
\* 100 * costMultiplier.
C18_FooMultiplier ==
    \A p \in Pipelines :
        (astNode[p] # NoNode /\ astNode[p].kind = "foo" /\ logicalNode[p] # NoNode) =>
            LET d  == astNode[p].fooData
                ln == logicalNode[p]
            IN  /\ ln.kind = "foo"
                /\ d > 0 => ln.costMultiplier = 2
                /\ d <= 0 => ln.costMultiplier = 1
                /\ pc[p] = "done" => explained[p] # <<>>
                /\ \A i \in 1..Len(explained[p]) :
                      /\ HasPieces(explained[p][i],
                                   <<"  Estimated Cost: ", IF d > 0 THEN "2" ELSE "1", "0", "0",
                                     " units">>)
                      /\ HasPieces(explained[p][i],
                                   <<"  Cost Multiplier: ", IF d > 0 THEN "2" ELSE "1", "\n">>)

\* the payload zero
C18_Witness ==
    /\ pc[1] = "done"
    /\ astNode[1].kind = "foo"
    /\ astNode[1].fooData = 0
    /\ logicalNode[1].costMultiplier = 1

\* the node in store[p] stays as it is over the step, unless the frame ends
Kept(store, p) == (store[p] # NoNode /\ pc'[p] # "idle") => store'[p] = store[p]

RegisteredNames(log) == {log[i].name : i \in 1..Len(log)}

\* the factory given in the first call of log that registers name
FirstFactory(log, name) ==
    LET calls == {i \in 1..Len(log) : log[i].name = name}
    IN  log[CHOOSE i \in calls : \A j \in calls : i <= j].factory

C21_FirstKept ==
    /\ DOMAIN parserMap = RegisteredNames(regLog)
    /\ \A name \in DOMAIN parserMap : parserMap[name] = FirstFactory(regLog, name)

C21_Step ==
    /\ \A name \in DOMAIN parserMap :
          name \in DOMAIN parserMap' /\ parserMap'[name] = parserMap[name]
    /\ regLog' # regLog => (err' = err /\ pc' = pc /\ parseNode' = parseNode)
    /\ \A p \in Pipelines :
          (pc[p] = "idle" /\ pc'[p] # "idle" /\ inName'[p] \in RegisteredNames(regLog)) =>
              /\ ctorCount'[p] = 1
              /\ err'[p].type # "runtime_error"
              /\ pc'[p] # "failed" =>
                    parseNode'[p].kind = KindOfFactory(FirstFactory(regLog, inName'[p]))

\* C21: after any sequence of registerParseNode calls each registered name
\* maps to the factory of the first call that registered it; a call for a
\* name already present changes no entry and raises no error; no step
\* removes or replaces an entry, and a lookup of a name registered earlier
\* always reaches the factory of its first registration.
C21_FirstWins == []C21_FirstKept /\ [][C21_Step]_vars

\* "limit" registered twice with different factories, then looked up
C21_Witness ==
    /\ Len(regLog) >= 2
    /\ regLog[1] = [name |-> "limit", factory |-> "SortNode"]
    /\ regLog[2] = [name |-> "limit", factory |-> "LimitNode"]
    /\ parserMap["limit"] = "SortNode"
    /\ pc[1] = "parsed" /\ inName[1] = "limit"
    /\ parseNode[1].kind = "sort"

BarRun(p) == Started(p) /\ pc[p] # "failed" /\ parseNode[p].kind = "bar"

====
